---------------------------- MODULE Spec2Model ----------------------------
(***************************************************************************)
(* Model of the YouTube Shorts generator.                                  *)
(*                                                                         *)
(*  - components/VideoGenerator.tsx: the React component that holds the    *)
(*    settings form and runs handleGenerate, the seven-step pipeline       *)
(*    orchestrator (specification Spec).                                   *)
(*  - app/api/generate-script/route.ts: the POST handler that plans the    *)
(*    script, with createFallbackScript and extractKeywords                *)
(*    (specification SpecPOST).                                            *)
(*                                                                         *)
(* A JavaScript string is a sequence of pieces (each piece a TLA+ string), *)
(* concatenation is \o.  A prompt is kept as the sequence of its words,    *)
(* separated by single spaces in the real string; the empty prompt '' is   *)
(* << >>.                                                                  *)
(***************************************************************************)
EXTENDS Integers, Sequences, FiniteSets, TLC

\* ------------------------------------------------------------------ bounds
\* Number of generate clicks explored.
MaxRuns == 2
\* Number of progress callbacks the composer makes in one composition.
MaxProgressCalls == 1

\* ------------------------------------------------------------- input sets
\* Prompts the user can type (sequences of words).
Prompts == { << >>, <<"cat">>, <<"morning", "coffee", "routine">> }
\* Prompts a request to the endpoint can carry: those of the form, and
\* prompts with capitals, stopwords, short words, repeated words and more
\* than three keywords.
ApiPrompts ==
    Prompts \cup
    { <<"Create", "a", "video", "about", "Space", "travel", "history", "facts">>,
      <<"coffee", "the", "coffee", "beans">>,
      <<"a", "cat", "and", "the", "dog">> }
\* types/index.ts: duration: 15 | 30 | 60 and the three duration buttons.
Durations == {15, 30, 60}
\* types/index.ts: resolution and the two resolution buttons.
Resolutions == {"1080x1920", "720x1280"}
\* The voice lists getAvailableVoices() can resolve to.
VoiceLists == { << >>, <<"Alice", "Bob">> }

\* ------------------------------------------------------- string helpers
RECURSIVE JoinWords(_)
\* The JavaScript string of a prompt: its words separated by one space.
JoinWords(ws) ==
    IF ws = << >> THEN << >>
    ELSE IF Len(ws) = 1 THEN <<ws[1]>>
    ELSE <<ws[1], " ">> \o JoinWords(Tail(ws))

RECURSIVE JoinSpaceNoSeparator(_)
\* Mutant of JoinSpace: join('') instead of join(' ').
JoinSpaceNoSeparator(texts) ==
    IF texts = << >> THEN << >>
    ELSE texts[1] \o JoinSpaceNoSeparator(Tail(texts))

RECURSIVE JoinSpace(_)
\* Array.prototype.join(' ') over an array of strings.
JoinSpace(texts) ==
    IF texts = << >> THEN << >>
    ELSE IF Len(texts) = 1 THEN texts[1]
    ELSE texts[1] \o <<" ">> \o JoinSpace(Tail(texts))

RECURSIVE Dedup(_, _)
\* Array.from(new Set(xs)): first occurrences, in order.
Dedup(xs, seen) ==
    IF xs = << >> THEN << >>
    ELSE IF xs[1] \in seen THEN Dedup(Tail(xs), seen)
    ELSE <<xs[1]>> \o Dedup(Tail(xs), seen \cup {xs[1]})

RECURSIVE FlatMapKeywords(_)
\* scriptSegments.flatMap(s => s.keywords)
FlatMapKeywords(segs) ==
    IF segs = << >> THEN << >>
    ELSE segs[1].keywords \o FlatMapKeywords(Tail(segs))

\* ------------------------------------------- route.ts: the fallback script
\* prompt.toLowerCase() on one word of the vocabulary.
ToLowerCase(w) ==
    CASE w = "Create" -> "create"
      [] w = "Space"  -> "space"
      [] OTHER        -> w

stopWords ==
    {"a", "an", "the", "and", "or", "but", "in", "on", "at", "to", "for",
     "create", "video", "about"}

\* prompt.toLowerCase().split(/\s+/): the empty string splits into [''].
SplitWords(prompt) ==
    IF prompt = << >> THEN <<"">>
    ELSE [i \in 1..Len(prompt) |-> ToLowerCase(prompt[i])]

RECURSIVE FilterWords(_)
FilterWords(ws) ==
    IF ws = << >> THEN << >>
    ELSE IF ws[1] \notin stopWords /\ Len(ws[1]) > 3
         THEN <<ws[1]>> \o FilterWords(Tail(ws))
         ELSE FilterWords(Tail(ws))

\* Mutant of extractKeywords: slice(0, 3) is missing.
extractKeywordsNoSlice(prompt) == FilterWords(SplitWords(prompt))

\* words.filter(...).slice(0, 3)
extractKeywords(prompt) ==
    LET kept == FilterWords(SplitWords(prompt))
    IN  SubSeq(kept, 1, IF Len(kept) < 3 THEN Len(kept) ELSE 3)

\* The five template sentences with the prompt spliced in.
templates(prompt) ==
    LET p == JoinWords(prompt)
    IN  << <<"Welcome to this amazing ">> \o p \o <<". Let's dive right in!">>,
           <<"Here's what makes ">> \o p \o <<" so special and unique.">>,
           <<"You won't believe these incredible facts about ">> \o p \o <<".">>,
           <<"This is the ultimate guide to ">> \o p
               \o <<" you've been waiting for.">>,
           <<"Transform your life with ">> \o p \o <<" starting today.">> >>

\* Mutant of CeilDiv5: one segment too many.
CeilDiv5PlusOne(duration) == (duration \div 5) + 1

\* Math.ceil(duration / 5) for a non-negative integer duration.
CeilDiv5(duration) == (duration + 4) \div 5

\* Mutant of createFallbackScript: the template index starts at 1, not 0.
createFallbackScriptShifted(prompt, duration) ==
    LET segmentCount    == CeilDiv5(duration)
        segmentDuration == duration \div segmentCount
        keywords        == extractKeywords(prompt)
        tpl             == templates(prompt)
    IN  [i \in 1..segmentCount |->
            [text     |-> tpl[(i % Len(tpl)) + 1],
             duration |-> segmentDuration,
             keywords |-> keywords]]

\* createFallbackScript(prompt, duration).  duration / segmentCount is an
\* exact integer for the durations of the model (15, 30, 60 give 5).
createFallbackScript(prompt, duration) ==
    LET segmentCount    == CeilDiv5(duration)
        segmentDuration == duration \div segmentCount
        keywords        == extractKeywords(prompt)
        tpl             == templates(prompt)
    IN  [i \in 1..segmentCount |->
            [text     |-> tpl[((i - 1) % Len(tpl)) + 1],
             duration |-> segmentDuration,
             keywords |-> keywords]]


\* ---------------------------------------- the libraries handleGenerate calls
\* (lib/scriptGenerator, lib/videoSearch, lib/textToSpeech, lib/videoComposer)

\* A value a rejected stage call can carry: an Error with a message, or a
\* value that is no Error.
Thrown(stage) ==
    { [isError |-> TRUE,  message |-> stage \o " failed"],
      [isError |-> FALSE, message |-> ""] }

\* A script as the text-generation service writes it.
AIScript(prompt, duration) ==
    << [text     |-> <<"Meet ">> \o JoinWords(prompt) \o <<".">>,
        duration |-> duration - 5,
        keywords |-> <<"nature", "city">>],
       [text     |-> <<"Follow for more.">>,
        duration |-> 5,
        keywords |-> <<"city">>] >>

\* lib/scriptGenerator createFallbackScript: the template planner.
libCreateFallbackScript(prompt, duration) == createFallbackScript(prompt, duration)

\* What awaiting generateScript(prompt, duration) can give: a rejection, or
\* the segments of the endpoint's answer.
GenerateScriptOutcomes(prompt, duration) ==
    { [ok |-> FALSE, thrown |-> t, segs |-> << >>] : t \in Thrown("generateScript") }
    \cup
    { [ok |-> TRUE, thrown |-> [isError |-> FALSE, message |-> ""], segs |-> s] :
        s \in {AIScript(prompt, duration), libCreateFallbackScript(prompt, duration)} }

\* The candidate lists searchVideos can resolve to.
ClipLists ==
    { << >>,
      << [url |-> "clipA", duration |-> 20], [url |-> "clipB", duration |-> 25] >>,
      << [url |-> "clipC", duration |-> 12] >> }

SearchVideosOutcomes ==
    { [ok |-> FALSE, thrown |-> t, clips |-> << >>] : t \in Thrown("searchVideos") }
    \cup
    { [ok |-> TRUE, thrown |-> [isError |-> FALSE, message |-> ""], clips |-> c] :
        c \in ClipLists }

RECURSIVE SelectLoop(_, _, _, _, _)
\* Clip Selector: walk the candidates in order, wrapping around, taking each
\* whole or trimmed to what is still needed, until the target is met.
SelectLoop(cands, i, total, target, acc) ==
    IF total >= target THEN acc
    ELSE LET c    == cands[i]
             need == target - total
             take == IF c.duration < need THEN c.duration ELSE need
         IN  SelectLoop(cands, (i % Len(cands)) + 1, total + take, target,
                        Append(acc, [c EXCEPT !.duration = take]))

selectClipsForDuration(clips, target) == SelectLoop(clips, 1, 0, target, << >>)

\* generateVoiceover resolves to { audioBlob, duration }; the engine may
\* report no duration (0).
VoiceoverDurations == {0, 17}

GenerateVoiceoverOutcomes ==
    { [ok |-> FALSE, thrown |-> t, audioBlob |-> "", duration |-> 0] :
        t \in Thrown("generateVoiceover") }
    \cup
    { [ok |-> TRUE, thrown |-> [isError |-> FALSE, message |-> ""],
       audioBlob |-> "audio", duration |-> d] : d \in VoiceoverDurations }

\* Caption Aligner: contiguous captions from 0 to the given duration.
generateSubtitles(fullText, duration) ==
    << [startTime |-> 0, endTime |-> duration, text |-> fullText] >>

LoadFFmpegOutcomes ==
    { [ok |-> FALSE, thrown |-> t] : t \in Thrown("loadFFmpeg") }
    \cup { [ok |-> TRUE, thrown |-> [isError |-> FALSE, message |-> ""]] }

ComposeVideoOutcomes ==
    { [ok |-> FALSE, thrown |-> t] : t \in Thrown("composeVideo") }
    \cup { [ok |-> TRUE, thrown |-> [isError |-> FALSE, message |-> ""]] }

\* The percentages the composer reports through onProgress.
ProgressValues == {50, 100}

\* `Composing video: ${progress.toFixed(0)}%`
ComposingText(p) ==
    CASE p = 50  -> "Composing video: 50%"
      [] p = 100 -> "Composing video: 100%"
      [] OTHER   -> "Composing video: 0%"

\* URL.createObjectURL(videoBlob): a fresh blob: URL per call.
CreateObjectURL(n) ==
    CASE n = 1 -> "blob:1"
      [] n = 2 -> "blob:2"
      [] n = 3 -> "blob:3"
      [] OTHER -> "blob:n"


\* ------------------------------------------------ VideoGenerator.tsx: state
VARIABLES
    settings,        \* useState<VideoSettings>
    voices,          \* useState<SpeechSynthesisVoice[]> (the voice names)
    isGenerating,    \* useState(false)
    progress,        \* useState<string>('')
    currentStep,     \* useState<number>(0)
    videoUrl,        \* useState<string>('')
    error,           \* useState<string>('')
    voicesPc,        \* loadVoices: "pending" while getAvailableVoices is awaited
    view,            \* the last committed render: what the DOM shows and what
                     \* the event handlers' closures hold
    pc,              \* where the running handleGenerate is suspended
    run,             \* the running handleGenerate: its closure and locals
    active,          \* executions of handleGenerate that have not returned
    runs,            \* generate clicks so far
    stepTrace,       \* the setCurrentStep arguments of the latest run
    calls,           \* the stage functions the latest run has called
    thrownAt,        \* the steps of the latest run in which a stage call threw
    errorsRecorded,  \* setError calls with a message in the latest run
    outcome,         \* "none", "running", "done" or "failed" (latest run)
    lookup,          \* what searchVideos gave the latest run: "none" yet,
                     \* "threw", "empty" or "some" candidates
    completed,       \* runs that reached step 7
    nProgress        \* onProgress callbacks of the running composition

uiVars == <<settings, voices, isGenerating, progress, currentStep, videoUrl,
            error, voicesPc, view, pc, run, active, runs, stepTrace, calls,
            thrownAt, errorsRecorded, outcome, lookup, completed, nProgress>>

\* ------------------------------------------------------ route.ts: state
VARIABLES
    req,             \* the request: the kind of body, and its prompt and duration
    apiKey,          \* process.env.OPENAI_API_KEY is set
    upstream,        \* what the text-generation service does for this request
    ppc,             \* where POST is
    bodyUsed,        \* the request body stream has been read
    fetched,         \* fetch to the text-generation service was called
    caught,          \* the outer catch block was entered
    response         \* what POST completed with

postVars == <<req, apiKey, upstream, ppc, bodyUsed, fetched, caught, response>>

vars == <<uiVars, postVars>>

\* The state of the endpoint while only the component is explored.
PostIdle ==
    /\ req = [body |-> "ok", prompt |-> << >>, duration |-> 15]
    /\ apiKey = FALSE
    /\ upstream = "none"
    /\ ppc = "idle"
    /\ bodyUsed = FALSE
    /\ fetched = FALSE
    /\ caught = FALSE
    /\ response = [kind |-> "none"]

NoLocals ==
    [settings       |-> [prompt |-> << >>, duration |-> 30,
                         resolution |-> "1080x1920", voice |-> ""],
     scriptSegments |-> << >>,
     uniqueKeywords |-> << >>,
     selectedClips  |-> << >>,
     fullScript     |-> << >>,
     audioBlob      |-> "",
     duration       |-> 0,
     subtitles      |-> << >>,
     \* the arguments the stage calls were given
     scriptArgs     |-> [prompt |-> << >>, duration |-> 0],
     searchArgs     |-> [keywords |-> << >>, duration |-> 0],
     selectTarget   |-> 0,
     voiceArgs      |-> [text |-> << >>, voice |-> ""],
     subtitleArgs   |-> [text |-> << >>, duration |-> 0],
     composeArgs    |-> [clips |-> << >>, subtitles |-> << >>, audioBlob |-> "",
                         resolution |-> ""]]

\* What a render commits: the form's values and the closures of its handlers.
Committed(s, v, g) == [settings |-> s, voices |-> v, isGenerating |-> g]

\* The component after mount: the useState initial values, loadVoices started.
UIInit ==
    /\ settings = [prompt |-> << >>, duration |-> 30,
                   resolution |-> "1080x1920", voice |-> ""]
    /\ voices = << >>
    /\ isGenerating = FALSE
    /\ progress = ""
    /\ currentStep = 0
    /\ videoUrl = ""
    /\ error = ""
    /\ voicesPc = "pending"
    /\ view = Committed(settings, voices, isGenerating)
    /\ pc = "idle"
    /\ run = NoLocals
    /\ active = 0
    /\ runs = 0
    /\ stepTrace = << >>
    /\ calls = << >>
    /\ thrownAt = {}
    /\ errorsRecorded = 0
    /\ outcome = "none"
    /\ lookup = "none"
    /\ completed = 0
    /\ nProgress = 0

Init == UIInit /\ PostIdle


\* ------------------------------------------- VideoGenerator.tsx: operations

\* Mutant of StepAt: the step numbers of the voiceover and subtitle stages
\* exchanged.
StepAtSwapped(stage) ==
    CASE stage = "start"             -> 0
      [] stage = "generateScript"    -> 1
      [] stage = "searchVideos"      -> 2
      [] stage = "generateVoiceover" -> 4
      [] stage = "generateSubtitles" -> 3
      [] stage = "loadFFmpeg"        -> 5
      [] stage = "composeVideo"      -> 6
      [] OTHER                       -> 7

\* The argument of each setCurrentStep call of handleGenerate.
StepAt(stage) ==
    CASE stage = "start"             -> 0
      [] stage = "generateScript"    -> 1
      [] stage = "searchVideos"      -> 2
      [] stage = "generateVoiceover" -> 3
      [] stage = "generateSubtitles" -> 4
      [] stage = "loadFFmpeg"        -> 5
      [] stage = "composeVideo"      -> 6
      [] OTHER                       -> 7

\* Mutant of GenerateDisabled: the prompt is not looked at.
GenerateDisabledIgnoresPrompt(v) == v.isGenerating

\* Mutant of GenerateDisabled: a run in progress is not looked at.
GenerateDisabledIgnoresRun(v) == v.settings.prompt = << >>

\* disabled={isGenerating || !settings.prompt} of the generate button, as
\* the committed render shows it.
GenerateDisabled(v) == v.isGenerating \/ v.settings.prompt = << >>

\* disabled={isGenerating} of the form controls.
ControlsDisabled(v) == v.isGenerating

\* err instanceof Error ? err.message : 'Unknown error occurred'
ErrorMessage(t) == IF t.isError THEN t.message ELSE "Unknown error occurred"

NoThrow == [isError |-> FALSE, message |-> ""]

\* throw new Error('No videos found for the given prompt')
NoVideosError == [isError |-> TRUE, message |-> "No videos found for the given prompt"]

\* Mutant of NoVideosFound: the empty check is missing.
NoVideosFoundNever(clips) == FALSE

\* videoClips.length === 0
NoVideosFound(clips) == Len(clips) = 0

\* Mutant of ScriptOrFallback: no inner try/catch, the rejection propagates.
ScriptOrFallbackRethrows(o, s) == o

\* The inner try/catch around generateScript: a rejection is replaced by the
\* fallback script, nothing is rethrown.
ScriptOrFallback(o, s) ==
    IF o.ok THEN o
    ELSE [ok |-> TRUE, thrown |-> NoThrow,
          segs |-> libCreateFallbackScript(s.prompt, s.duration)]

\* selectClipsForDuration as the statement of handleGenerate sees it: the
\* selected clips, or the selector's error for an empty candidate list.
SelectClips(clips, target) ==
    IF clips = << >>
    THEN [ok |-> FALSE, clips |-> << >>,
          thrown |-> [isError |-> TRUE, message |-> "No candidate clips"]]
    ELSE [ok |-> TRUE, clips |-> selectClipsForDuration(clips, target),
          thrown |-> NoThrow]

\* Mutant of SettingsRead: the stages read the component's current state.
SettingsReadLive == settings

\* The `settings` the statements of handleGenerate read: the constant of
\* the render in which the running handleGenerate was created.
SettingsRead == run.settings

\* duration || settings.duration
CaptionDuration(duration, s) == IF duration # 0 THEN duration ELSE s.duration

\* loadVoices after getAvailableVoices() resolved: setVoices, and the first
\* voice becomes the selected one.  The render is scheduled, not immediate.
LoadVoicesReturn(av) ==
    /\ voicesPc = "pending"
    /\ voicesPc' = "done"
    /\ voices' = av
    /\ settings' = IF Len(av) > 0 THEN [settings EXCEPT !.voice = av[1]] ELSE settings
    /\ UNCHANGED <<postVars, lookup, completed, isGenerating, progress, currentStep, videoUrl, error, view,
                   pc, run, active, runs, stepTrace, calls, thrownAt,
                   errorsRecorded, outcome, nProgress>>

\* React commits the state set outside an event handler.
Render ==
    /\ view # Committed(settings, voices, isGenerating)
    /\ view' = Committed(settings, voices, isGenerating)
    /\ UNCHANGED <<postVars, lookup, completed, settings, voices, isGenerating, progress, currentStep,
                   videoUrl, error, voicesPc, pc, run, active, runs, stepTrace,
                   calls, thrownAt, errorsRecorded, outcome, nProgress>>

\* A form control's handler: setSettings({ ...settings, field: value }) with
\* the settings of the committed render; the event's render is synchronous.
ChangeSettings(s) ==
    /\ ~ControlsDisabled(view)
    /\ s # view.settings
    /\ settings' = s
    /\ view' = Committed(s, voices, isGenerating)
    /\ UNCHANGED <<postVars, lookup, completed, voices, isGenerating, progress, currentStep, videoUrl, error,
                   voicesPc, pc, run, active, runs, stepTrace, calls, thrownAt,
                   errorsRecorded, outcome, nProgress>>

ChangePrompt(p) == ChangeSettings([view.settings EXCEPT !.prompt = p])

ChangeDuration(d) == ChangeSettings([view.settings EXCEPT !.duration = d])

ChangeResolution(r) == ChangeSettings([view.settings EXCEPT !.resolution = r])

ChangeVoice(i) ==
    /\ i \in 1..Len(view.voices)
    /\ ChangeSettings([view.settings EXCEPT !.voice = view.voices[i]])

\* Mutant of HandleGenerateReset: setVideoUrl('') is missing.
HandleGenerateResetKeepsVideo ==
    /\ isGenerating' = TRUE
    /\ error' = ""
    /\ UNCHANGED videoUrl

\* The first statements of handleGenerate: the state of the previous run is
\* cleared.
HandleGenerateReset ==
    /\ isGenerating' = TRUE
    /\ error' = ""
    /\ videoUrl' = ""

\* A click on the generate button: handleGenerate up to its first await.
ClickGenerate ==
    /\ ~GenerateDisabled(view)
    /\ runs < MaxRuns
    /\ HandleGenerateReset
    /\ currentStep' = StepAt("generateScript")
    /\ progress' = "Generating AI script..."
    /\ run' = [NoLocals EXCEPT
                  !.settings = view.settings,
                  !.scriptArgs = [prompt   |-> view.settings.prompt,
                                  duration |-> view.settings.duration]]
    /\ pc' = "generateScript"
    /\ active' = active + 1
    /\ runs' = runs + 1
    /\ stepTrace' = <<StepAt("start"), StepAt("generateScript")>>
    /\ calls' = <<"generateScript">>
    /\ thrownAt' = {}
    /\ errorsRecorded' = 0
    /\ outcome' = "running"
    /\ lookup' = "none"
    /\ nProgress' = 0
    /\ view' = Committed(settings, voices, TRUE)
    /\ UNCHANGED <<postVars, completed, settings, voices, voicesPc>>

\* Mutant of Fail: the finally block is missing, isGenerating stays true.
FailWithoutFinally(t) ==
    /\ error' = ErrorMessage(t)
    /\ progress' = ""
    /\ pc' = "idle"
    /\ active' = active - 1
    /\ errorsRecorded' = errorsRecorded + 1
    /\ outcome' = "failed"
    /\ run' = NoLocals
    /\ UNCHANGED <<isGenerating, currentStep, videoUrl, stepTrace, nProgress>>

\* The catch and finally blocks of handleGenerate.
Fail(t) ==
    /\ error' = ErrorMessage(t)
    /\ progress' = ""
    /\ isGenerating' = FALSE
    /\ pc' = "idle"
    /\ active' = active - 1
    /\ errorsRecorded' = errorsRecorded + 1
    /\ outcome' = "failed"
    /\ run' = NoLocals
    /\ UNCHANGED <<currentStep, videoUrl, stepTrace, nProgress>>

\* generateScript settled: steps 1 to 2, up to the await of searchVideos.
GenerateScriptReturn(o) ==
    /\ pc = "generateScript"
    /\ thrownAt' = IF o.ok THEN thrownAt ELSE thrownAt \cup {StepAt("generateScript")}
    /\ \E r \in {ScriptOrFallback(o, SettingsRead)} :
       \E allKeywords \in {FlatMapKeywords(r.segs)} :
       \E uniqueKeywords \in {Dedup(allKeywords, {})} :
           IF ~r.ok
           THEN /\ Fail(r.thrown)
                /\ UNCHANGED calls
           ELSE /\ run' = [run EXCEPT
                              !.scriptSegments = r.segs,
                              !.uniqueKeywords = uniqueKeywords,
                              !.searchArgs =
                                  [keywords |-> uniqueKeywords,
                                   duration |-> SettingsRead.duration]]
                /\ currentStep' = StepAt("searchVideos")
                /\ progress' = "Searching for relevant videos..."
                /\ stepTrace' = Append(stepTrace, StepAt("searchVideos"))
                /\ calls' = calls
                            \o (IF o.ok THEN << >> ELSE <<"createFallbackScript">>)
                            \o <<"searchVideos">>
                /\ pc' = "searchVideos"
                /\ UNCHANGED <<isGenerating, videoUrl, error, active,
                               errorsRecorded, outcome, nProgress>>
    /\ UNCHANGED <<postVars, lookup, completed, settings, voices, voicesPc, view, runs>>

\* searchVideos settled: the empty check, clip selection, step 3, up to the
\* await of generateVoiceover.
SearchVideosReturn(o) ==
    /\ pc = "searchVideos"
    /\ lookup' = IF ~o.ok THEN "threw"
                 ELSE IF Len(o.clips) = 0 THEN "empty" ELSE "some"
    /\ IF ~o.ok
       THEN /\ Fail(o.thrown)
            /\ thrownAt' = thrownAt \cup {StepAt("searchVideos")}
            /\ UNCHANGED calls
       ELSE IF NoVideosFound(o.clips)
       THEN /\ Fail(NoVideosError)
            /\ thrownAt' = thrownAt \cup {StepAt("searchVideos")}
            /\ UNCHANGED calls
       ELSE \E sel \in {SelectClips(o.clips, SettingsRead.duration)} :
            \E texts \in {[i \in 1..Len(run.scriptSegments) |->
                              run.scriptSegments[i].text]} :
            \E fullScript \in {JoinSpace(texts)} :
                IF ~sel.ok
                THEN /\ Fail(sel.thrown)
                     /\ thrownAt' = thrownAt \cup {StepAt("searchVideos")}
                     /\ calls' = Append(calls, "selectClipsForDuration")
                ELSE /\ run' = [run EXCEPT
                                  !.selectedClips = sel.clips,
                                  !.selectTarget = SettingsRead.duration,
                                  !.fullScript = fullScript,
                                  !.voiceArgs = [text  |-> fullScript,
                                                 voice |-> SettingsRead.voice]]
                     /\ currentStep' = StepAt("generateVoiceover")
                     /\ progress' = "Generating voiceover..."
                     /\ stepTrace' = Append(stepTrace, StepAt("generateVoiceover"))
                     /\ calls' = calls \o <<"selectClipsForDuration", "generateVoiceover">>
                     /\ pc' = "generateVoiceover"
                     /\ UNCHANGED <<isGenerating, videoUrl, error, active, thrownAt,
                                    errorsRecorded, outcome, nProgress>>
    /\ UNCHANGED <<postVars, completed, settings, voices, voicesPc, view, runs>>

\* generateVoiceover settled: steps 4 and 5, up to the await of loadFFmpeg.
GenerateVoiceoverReturn(o) ==
    /\ pc = "generateVoiceover"
    /\ IF ~o.ok
       THEN /\ Fail(o.thrown)
            /\ thrownAt' = thrownAt \cup {StepAt("generateVoiceover")}
            /\ UNCHANGED calls
       ELSE /\ run' = [run EXCEPT
                         !.audioBlob = o.audioBlob,
                         !.duration = o.duration,
                         !.subtitleArgs =
                             [text     |-> run.fullScript,
                              duration |-> CaptionDuration(o.duration, SettingsRead)],
                         !.subtitles =
                             generateSubtitles(run.fullScript,
                                 CaptionDuration(o.duration, SettingsRead))]
            /\ currentStep' = StepAt("loadFFmpeg")
            /\ progress' = "Loading video processor..."
            /\ stepTrace' = stepTrace
                            \o <<StepAt("generateSubtitles"), StepAt("loadFFmpeg")>>
            /\ calls' = calls \o <<"generateSubtitles", "loadFFmpeg">>
            /\ pc' = "loadFFmpeg"
            /\ UNCHANGED <<isGenerating, videoUrl, error, active, thrownAt,
                           errorsRecorded, outcome, nProgress>>
    /\ UNCHANGED <<postVars, lookup, completed, settings, voices, voicesPc, view, runs>>

\* Mutant of LoadFFmpegReturn: a failed load is recorded and tried again.
LoadFFmpegReturnRetries(o) ==
    /\ pc = "loadFFmpeg"
    /\ IF ~o.ok
       THEN /\ error' = ErrorMessage(o.thrown)
            /\ errorsRecorded' = errorsRecorded + 1
            /\ thrownAt' = thrownAt \cup {StepAt("loadFFmpeg")}
            /\ calls' = Append(calls, "loadFFmpeg")
            /\ UNCHANGED <<pc, currentStep, progress, stepTrace, isGenerating,
                           videoUrl, active, outcome, nProgress, run>>
       ELSE /\ currentStep' = StepAt("composeVideo")
            /\ progress' = "Composing final video..."
            /\ stepTrace' = Append(stepTrace, StepAt("composeVideo"))
            /\ calls' = Append(calls, "composeVideo")
            /\ pc' = "composeVideo"
            /\ UNCHANGED <<isGenerating, videoUrl, error, active, thrownAt,
                           errorsRecorded, outcome, nProgress, run>>
    /\ UNCHANGED <<postVars, lookup, completed, settings, voices, voicesPc,
                   view, runs>>

\* loadFFmpeg settled: step 6, up to the await of composeVideo.
LoadFFmpegReturn(o) ==
    /\ pc = "loadFFmpeg"
    /\ IF ~o.ok
       THEN /\ Fail(o.thrown)
            /\ thrownAt' = thrownAt \cup {StepAt("loadFFmpeg")}
            /\ UNCHANGED calls
       ELSE /\ currentStep' = StepAt("composeVideo")
            /\ progress' = "Composing final video..."
            /\ stepTrace' = Append(stepTrace, StepAt("composeVideo"))
            /\ calls' = Append(calls, "composeVideo")
            /\ pc' = "composeVideo"
            /\ run' = [run EXCEPT
                         !.composeArgs = [clips      |-> run.selectedClips,
                                          subtitles  |-> run.subtitles,
                                          audioBlob  |-> run.audioBlob,
                                          resolution |-> SettingsRead.resolution]]
            /\ UNCHANGED <<isGenerating, videoUrl, error, active, thrownAt,
                           errorsRecorded, outcome, nProgress>>
    /\ UNCHANGED <<postVars, lookup, completed, settings, voices, voicesPc, view, runs>>

\* The onProgress callback given to composeVideo.
ComposeProgress(p) ==
    /\ pc = "composeVideo"
    /\ nProgress < MaxProgressCalls
    /\ nProgress' = nProgress + 1
    /\ progress' = ComposingText(p)
    /\ UNCHANGED <<postVars, lookup, completed, settings, voices, isGenerating, currentStep, videoUrl, error,
                   voicesPc, view, pc, run, active, runs, stepTrace, calls,
                   thrownAt, errorsRecorded, outcome>>

\* composeVideo settled: the video URL, step 7, and the finally block.
ComposeVideoReturn(o) ==
    /\ pc = "composeVideo"
    /\ IF ~o.ok
       THEN /\ Fail(o.thrown)
            /\ thrownAt' = thrownAt \cup {StepAt("composeVideo")}
            /\ UNCHANGED completed
       ELSE /\ videoUrl' = CreateObjectURL(runs)
            /\ progress' = "Video generated successfully!"
            /\ currentStep' = StepAt("done")
            /\ stepTrace' = Append(stepTrace, StepAt("done"))
            /\ isGenerating' = FALSE
            /\ pc' = "idle"
            /\ active' = active - 1
            /\ outcome' = "done"
            /\ completed' = completed + 1
            /\ run' = NoLocals
            /\ UNCHANGED <<error, thrownAt, errorsRecorded, nProgress>>
    /\ UNCHANGED <<postVars, lookup, settings, voices, voicesPc, view, runs, calls>>

\* --------------------------------------------------- route.ts: the endpoint

\* JSON values: null, a number, a string, an array (its items), an object
\* (whether it has a `segments` array, and that array's items).
JNull == [t |-> "null", items |-> << >>, hasSegments |-> FALSE, segments |-> << >>]

JNum == [t |-> "num", items |-> << >>, hasSegments |-> FALSE, segments |-> << >>]

JStr == [t |-> "str", items |-> << >>, hasSegments |-> FALSE, segments |-> << >>]

JArr(items) ==
    [t |-> "arr", items |-> items, hasSegments |-> FALSE, segments |-> << >>]

JObjOther == [t |-> "obj", items |-> << >>, hasSegments |-> FALSE, segments |-> << >>]

JObjSegments(items) ==
    [t |-> "obj", items |-> << >>, hasSegments |-> TRUE, segments |-> items]

\* The requests POST can receive: a body req.json() cannot read, a JSON
\* object without a prompt, or { prompt, duration }.
Requests ==
    { [body |-> "unreadable", prompt |-> << >>, duration |-> 15],
      [body |-> "noPrompt",   prompt |-> << >>, duration |-> 15] }
    \cup
    { [body |-> "ok", prompt |-> p, duration |-> d] : p \in ApiPrompts, d \in Durations }

\* What the text-generation service does: the fetch rejects, the response is
\* not OK, its body is no JSON, the JSON has no choices[0].message, or the
\* message content is text that is no JSON, or JSON of some shape.
Upstreams(r) ==
    { [kind |-> k, parses |-> FALSE, value |-> JNull] :
        k \in {"networkError", "notOk", "badJson", "noChoices", "content"} }
    \cup
    { [kind |-> "content", parses |-> TRUE, value |-> v] :
        v \in { JNull, JNum, JStr, JObjOther,
                JObjSegments(AIScript(r.prompt, r.duration)),
                JArr(AIScript(r.prompt, r.duration)) } }

NoResponse ==
    [kind |-> "none", status |-> 0, error |-> "", segments |-> JNull]

\* The promise POST returns rejects: the failure escapes the handler.
Rejected ==
    [kind |-> "rejected", status |-> 0, error |-> "", segments |-> JNull]

\* NextResponse.json({ error?, segments }, { status: 200 })
JsonResponse(err, segs) ==
    [kind |-> "json", status |-> 200, error |-> err, segments |-> segs]

\* createFallbackScript(prompt, duration) inside POST: extractKeywords calls
\* prompt.toLowerCase(), which throws when the body carried no prompt.
FallbackThrows(r) == r.body = "noPrompt"

FallbackSegments(r) == JArr(createFallbackScript(r.prompt, r.duration))

\* Mutant of KeyMissing: the credential check is missing.
KeyMissingNever == FALSE

\* if (!apiKey)
KeyMissing == ~apiKey

\* JSON.parse(content) followed by parsed.segments || parsed: reading
\* .segments of null throws, an object's segments array wins, any other
\* value is returned as it is.
ParseContent(u) ==
    IF ~u.parses \/ u.value.t = "null"
    THEN [ok |-> FALSE, segments |-> JNull]
    ELSE [ok |-> TRUE,
          segments |-> IF u.value.t = "obj" /\ u.value.hasSegments
                       THEN JArr(u.value.segments)
                       ELSE u.value]

\* A request arrives; the component plays no part.
POSTInit ==
    /\ UIInit
    /\ req \in Requests
    /\ apiKey \in BOOLEAN
    /\ upstream \in Upstreams(req)
    /\ ppc = "readBody"
    /\ bodyUsed = FALSE
    /\ fetched = FALSE
    /\ caught = FALSE
    /\ response = NoResponse

\* const { prompt, duration } = await req.json();
PostReadBody ==
    /\ ppc = "readBody"
    /\ bodyUsed' = TRUE
    /\ ppc' = IF req.body = "unreadable" THEN "catch" ELSE "checkKey"
    /\ UNCHANGED <<uiVars, req, apiKey, upstream, fetched, caught, response>>

\* The credential check: without a key the fallback is returned at once,
\* with a key the request to the service is sent.
PostCheckKey ==
    /\ ppc = "checkKey"
    /\ IF KeyMissing
       THEN IF FallbackThrows(req)
            THEN /\ ppc' = "catch"
                 /\ UNCHANGED <<response, fetched>>
            ELSE /\ response' = JsonResponse("API key not configured",
                                             FallbackSegments(req))
                 /\ ppc' = "done"
                 /\ UNCHANGED fetched
       ELSE /\ fetched' = TRUE
            /\ ppc' = "fetch"
            /\ UNCHANGED response
    /\ UNCHANGED <<uiVars, req, apiKey, upstream, bodyUsed, caught>>

\* await fetch(...) settled, and the response.ok check.
PostFetchReturn ==
    /\ ppc = "fetch"
    /\ ppc' = IF upstream.kind \in {"networkError", "notOk"}
              THEN "catch" ELSE "readAnswer"
    /\ UNCHANGED <<uiVars, req, apiKey, upstream, bodyUsed, fetched, caught, response>>

\* response.json(), data.choices[0].message.content, the inner try/catch
\* around JSON.parse, and the response.
PostReadAnswer ==
    /\ ppc = "readAnswer"
    /\ IF upstream.kind \in {"badJson", "noChoices"}
       THEN /\ ppc' = "catch"
            /\ UNCHANGED response
       ELSE LET r == ParseContent(upstream)
            IN  IF r.ok
                THEN /\ response' = JsonResponse("", r.segments)
                     /\ ppc' = "done"
                ELSE IF FallbackThrows(req)
                THEN /\ ppc' = "catch"
                     /\ UNCHANGED response
                ELSE /\ response' = JsonResponse("", FallbackSegments(req))
                     /\ ppc' = "done"
    /\ UNCHANGED <<uiVars, req, apiKey, upstream, bodyUsed, fetched, caught>>

\* The outer catch block: it reads the request body again.  A body that has
\* been read cannot be read a second time: req.json() rejects and the
\* rejection leaves POST.
PostCatch ==
    /\ ppc = "catch"
    /\ caught' = TRUE
    /\ response' = IF bodyUsed \/ req.body = "unreadable" \/ FallbackThrows(req)
                   THEN Rejected
                   ELSE JsonResponse("", FallbackSegments(req))
    /\ ppc' = "done"
    /\ UNCHANGED <<uiVars, req, apiKey, upstream, bodyUsed, fetched>>

POSTNext ==
    \/ PostReadBody
    \/ PostCheckKey
    \/ PostFetchReturn
    \/ PostReadAnswer
    \/ PostCatch

SpecPOST == POSTInit /\ [][POSTNext]_vars

Next ==
    \/ \E av \in VoiceLists : LoadVoicesReturn(av)
    \/ Render
    \/ \E p \in Prompts : ChangePrompt(p)
    \/ \E d \in Durations : ChangeDuration(d)
    \/ \E r \in Resolutions : ChangeResolution(r)
    \/ \E i \in 1..2 : ChangeVoice(i)
    \/ ClickGenerate
    \/ \E o \in GenerateScriptOutcomes(run.settings.prompt, run.settings.duration) :
           GenerateScriptReturn(o)
    \/ \E o \in SearchVideosOutcomes : SearchVideosReturn(o)
    \/ \E o \in GenerateVoiceoverOutcomes : GenerateVoiceoverReturn(o)
    \/ \E o \in LoadFFmpegOutcomes : LoadFFmpegReturn(o)
    \/ \E p \in ProgressValues : ComposeProgress(p)
    \/ \E o \in ComposeVideoOutcomes : ComposeVideoReturn(o)

Spec == Init /\ [][Next]_vars

\* A step the environment owes the component: the stage call that is
\* awaited settles, or React commits a scheduled render.
Settle ==
    \/ /\ pc = "generateScript"
       /\ \E o \in GenerateScriptOutcomes(run.settings.prompt, run.settings.duration) :
              GenerateScriptReturn(o)
    \/ \E o \in SearchVideosOutcomes : SearchVideosReturn(o)
    \/ \E o \in GenerateVoiceoverOutcomes : GenerateVoiceoverReturn(o)
    \/ \E o \in LoadFFmpegOutcomes : LoadFFmpegReturn(o)
    \/ \E o \in ComposeVideoOutcomes : ComposeVideoReturn(o)
    \/ Render

\* Every stage call that is awaited settles, and every scheduled render is
\* committed.
Fairness == WF_vars(Settle)

FairSpec == Spec /\ Fairness


\* ==================================================================
\* Properties of the endpoint (checked under SpecPOST)
\* ==================================================================

\* C1: POST never lets a failure escape: it always completes with a JSON
\* response, and whenever a step failed (the catch block was entered) the
\* response's segments are the fallback script for the request's prompt
\* and duration.
C1_NoFailureEscapes ==
    ppc = "done" =>
        /\ response.kind = "json"
        /\ (caught => response.segments = FallbackSegments(req))

\* The answers of the service that are neither a top-level array nor an
\* object with a segments array.
MalformedShape(u) ==
    u.kind = "content" /\ u.parses /\ u.value.t # "arr"
        /\ ~(u.value.t = "obj" /\ u.value.hasSegments)

\* C2: every response POST completes with carries an array of segments,
\* and an answer of any other shape is replaced by the fallback script.
C2_SegmentsAlwaysArray ==
    (ppc = "done" /\ response.kind = "json") =>
        /\ response.segments.t = "arr"
        /\ (fetched /\ MalformedShape(upstream)
               => response.segments = FallbackSegments(req))

\* C10: without an API credential the text-generation service is never
\* called, and a request that carries a prompt and a duration is answered
\* with the fallback script for them.
C10_NoKeyNoFetch ==
    ~apiKey =>
        /\ ~fetched
        /\ (ppc = "done" /\ req.body = "ok" =>
               /\ response.kind = "json"
               /\ response.status = 200
               /\ response.segments = FallbackSegments(req))

\* Witness of C10: POST has answered a { prompt, duration } request with no
\* credential configured.
C10_Witness ==
    /\ ~apiKey
    /\ ppc = "done"
    /\ req.body = "ok"
    /\ req.prompt = <<"morning", "coffee", "routine">>
    /\ response.segments = FallbackSegments(req)
    /\ ~fetched

\* POST has answered a { prompt, duration } request without a credential:
\* the segments of the response are createFallbackScript's result.
FallbackAnswered ==
    /\ ppc = "done"
    /\ req.body = "ok"
    /\ response.kind = "json"
    /\ response.error = "API key not configured"

RECURSIVE SumDurations(_)
SumDurations(segs) ==
    IF segs = << >> THEN 0 ELSE segs[1].duration + SumDurations(Tail(segs))

\* ceil(d / 5): the least n with 5 n >= d.
CeilFifth(d) == CHOOSE n \in 0..d : 5 * n >= d /\ 5 * (n - 1) < d

\* C11: for every prompt and every duration d in {15, 30, 60} the fallback
\* script has exactly ceil(d / 5) segments and their durations sum to d.
C11_FallbackCountAndSum ==
    FallbackAnswered =>
        /\ req.duration \in {15, 30, 60}
        /\ Len(response.segments.items) = CeilFifth(req.duration)
        /\ SumDurations(response.segments.items) = req.duration

\* Witness of C11: the fallback script for 60 seconds has been returned.
C11_Witness ==
    /\ FallbackAnswered
    /\ req.duration = 60
    /\ Len(response.segments.items) = 12

\* The positions of the words of ws that are keywords: no stopword and
\* longer than 3.
KeywordPositions(ws) ==
    {i \in 1..Len(ws) : ws[i] \notin stopWords /\ Len(ws[i]) > 3}

\* C12: the keywords are at most 3, none is a stopword or has length 3 or
\* less, and they are the first keyword words of the lowercased prompt in
\* the order in which they appear there.
C12_KeywordsWellFormed ==
    FallbackAnswered =>
        LET kw  == response.segments.items[1].keywords
            ws  == SplitWords(req.prompt)
            pos == KeywordPositions(ws)
        IN  /\ Len(kw) <= 3
            /\ \A j \in 1..Len(kw) : kw[j] \notin stopWords /\ Len(kw[j]) > 3
            /\ Len(kw) = (IF Cardinality(pos) < 3 THEN Cardinality(pos) ELSE 3)
            /\ \A j \in 1..Len(kw) :
                  \E i \in pos :
                      /\ Cardinality({h \in pos : h < i}) = j - 1
                      /\ kw[j] = ws[i]

\* Witness of C12: a prompt with capitals, stopwords and five keyword words
\* gave its first three keywords.
C12_Witness ==
    /\ FallbackAnswered
    /\ req.prompt = <<"Create", "a", "video", "about", "Space", "travel",
                      "history", "facts">>
    /\ response.segments.items[1].keywords = <<"space", "travel", "history">>

\* C17: every segment of the fallback script lasts d / ceil(d / 5), segment
\* i (from 0) carries template i mod 5, all segments carry
\* extractKeywords(prompt); 'morning coffee routine' with d = 15 gives 3
\* segments of 5 seconds with the keywords morning, coffee, routine.
C17_FallbackShape ==
    FallbackAnswered =>
        LET segs == response.segments.items
            n    == Len(segs)
        IN  /\ \A i \in 1..n :
                  /\ segs[i].duration * n = req.duration
                  /\ segs[i].text = templates(req.prompt)[((i - 1) % 5) + 1]
                  /\ segs[i].keywords = extractKeywords(req.prompt)
            /\ (req.prompt = <<"morning", "coffee", "routine">> /\ req.duration = 15) =>
                  /\ n = 3
                  /\ \A i \in 1..n :
                        /\ segs[i].duration = 5
                        /\ segs[i].keywords = <<"morning", "coffee", "routine">>
                  /\ segs[1].text =
                        <<"Welcome to this amazing ", "morning", " ", "coffee", " ",
                          "routine", ". Let's dive right in!">>
                  /\ segs[3].text =
                        <<"You won't believe these incredible facts about ",
                          "morning", " ", "coffee", " ", "routine", ".">>

\* Witness of C17: the fallback script for 'morning coffee routine' and 30
\* seconds has been returned; its sixth segment repeats the first template.
C17_Witness ==
    /\ FallbackAnswered
    /\ req.prompt = <<"morning", "coffee", "routine">>
    /\ req.duration = 30
    /\ response.segments.items[6].text = response.segments.items[1].text

\* ==================================================================
\* Properties of the component (checked under Spec)
\* ==================================================================

IsPrefix(s, t) == Len(s) <= Len(t) /\ s = SubSeq(t, 1, Len(s))

Last(s) == s[Len(s)]

NoRepeat(s) == Cardinality({s[i] : i \in 1..Len(s)}) = Len(s)

\* The arguments of setCurrentStep in the order of a complete run.
FullTrace == <<0, 1, 2, 3, 4, 5, 6, 7>>

\* The stage functions called after the clip lookup.
LaterStages ==
    {"selectClipsForDuration", "generateVoiceover", "generateSubtitles",
     "loadFFmpeg", "composeVideo"}

CallSet == {calls[i] : i \in 1..Len(calls)}

\* C3 as stated: the steps are taken in order, and a failure in any of the
\* steps 1 to 6 takes the run to the failed state.
C3_FailedFromEveryStep ==
    /\ IsPrefix(stepTrace, FullTrace)
    /\ \A k \in thrownAt : k \in 1..6 => outcome = "failed"

\* C3 amended: the step index of a run runs through 0, 1, ..., 7 in order
\* without skipping or going back; a run that failed did so in one of the
\* steps 2 to 6 because the stage call of that step failed, has returned
\* and advances no further; a failure of the planner call in step 1 alone
\* never makes the run fail.
C3_StepSequence ==
    /\ IsPrefix(stepTrace, FullTrace)
    /\ stepTrace # << >> => currentStep = Last(stepTrace)
    /\ outcome = "failed" =>
          /\ currentStep \in 2..6
          /\ currentStep \in thrownAt
          /\ pc = "idle" /\ active = 0
    /\ outcome = "done" => stepTrace = FullTrace
    /\ thrownAt \subseteq {1, currentStep}

\* Witness of C3: the planner failed in step 1, the run went on and failed
\* in step 5.
C3_Witness ==
    /\ outcome = "failed"
    /\ stepTrace = <<0, 1, 2, 3, 4, 5>>
    /\ thrownAt = {1, 5}

\* C4: an error and a video never coexist, and a video is shown only when
\* the latest run reached step 7; it is that run's video.
C4_ErrorExcludesVideo ==
    /\ error # "" => videoUrl = ""
    /\ videoUrl # "" =>
          /\ outcome = "done"
          /\ currentStep = 7
          /\ videoUrl = CreateObjectURL(runs)

\* Witness of C4: a run succeeded, the next one failed.
C4_Witness ==
    /\ completed = 1
    /\ runs = 2
    /\ outcome = "failed"
    /\ error # ""
    /\ videoUrl = ""

\* C5: an empty clip lookup makes the run fail with 'No videos found for
\* the given prompt' and no later stage is called; selectClipsForDuration
\* is called only with candidates.
C5_EmptyLookupFails ==
    /\ lookup = "empty" =>
          /\ outcome = "failed"
          /\ error = "No videos found for the given prompt"
          /\ CallSet \cap LaterStages = {}
          /\ Last(calls) = "searchVideos"
    /\ "selectClipsForDuration" \in CallSet => lookup = "some"

\* Witness of C5: the lookup of the latest run came back empty.
C5_Witness ==
    /\ lookup = "empty"
    /\ outcome = "failed"
    /\ currentStep = 2

\* C6: when generateScript throws, the run goes on to the clip search with
\* createFallbackScript(prompt, duration), no error is recorded for it, and
\* the run does not fail because of it.
C6_PlannerFailureRecovered ==
    1 \in thrownAt =>
        /\ Len(stepTrace) >= 3 /\ stepTrace[3] = 2
        /\ SubSeq(calls, 1, 3) = <<"generateScript", "createFallbackScript", "searchVideos">>
        /\ pc = "searchVideos" =>
              /\ run.scriptSegments =
                     createFallbackScript(run.settings.prompt, run.settings.duration)
              /\ error = ""
              /\ errorsRecorded = 0
        /\ outcome = "failed" => thrownAt # {1}

\* Witness of C6: the planner threw and the run is searching clips.
C6_Witness ==
    /\ 1 \in thrownAt
    /\ pc = "searchVideos"
    /\ outcome = "running"
    /\ run.settings.prompt = <<"cat">>

\* The stage call a run is in when it is at step k.
StageOfStep(k) ==
    CASE k = 2 -> "searchVideos"
      [] k = 3 -> "generateVoiceover"
      [] k = 5 -> "loadFFmpeg"
      [] OTHER -> "composeVideo"

\* C7: a fatal error in the clip search, the synthesis, the composer
\* loading or the composition records exactly one error, the stage that
\* failed is the last one the run started, the run has ended, and no stage
\* is called twice.
C7_FatalErrorHalts ==
    /\ errorsRecorded <= 1
    /\ NoRepeat(calls)
    /\ \A k \in thrownAt \cap {2, 3, 5, 6} :
          /\ outcome = "failed"
          /\ errorsRecorded = 1
          /\ error # ""
          /\ currentStep = k
          /\ Last(calls) = StageOfStep(k)
          /\ pc = "idle"
          /\ ~isGenerating

\* Witness of C7: the composer failed to load.
C7_Witness ==
    /\ 5 \in thrownAt
    /\ outcome = "failed"
    /\ error = "loadFFmpeg failed"

\* C8: a run is started only with a non-empty prompt.
C8_NonEmptyPrompt ==
    /\ active > 0 => run.settings.prompt # << >>
    /\ runs > 0 => settings.prompt # << >> \/ ~isGenerating
    /\ ~GenerateDisabled(view) => view.settings.prompt # << >>

\* Witness of C8: a run is in progress.
C8_Witness ==
    /\ active = 1
    /\ pc = "generateScript"
    /\ run.settings.prompt = <<"cat">>

\* C9: at most one execution of handleGenerate is in progress, it is in
\* progress exactly while isGenerating is true, and the generate button is
\* enabled only when none is.
C9_SingleRun ==
    /\ active \in {0, 1}
    /\ isGenerating <=> active = 1
    /\ pc # "idle" <=> active = 1
    /\ ~GenerateDisabled(view) => ~isGenerating /\ active = 0

\* Witness of C9: the second run is composing; the button is disabled.
C9_Witness ==
    /\ runs = 2
    /\ active = 1
    /\ pc = "composeVideo"
    /\ GenerateDisabled(view)

\* C13 as stated: the keywords of every script segment, and the keyword
\* list given to searchVideos, are not empty.
C13_KeywordsNonEmpty ==
    pc = "searchVideos" =>
        /\ run.searchArgs.keywords # << >>
        /\ \A i \in 1..Len(run.scriptSegments) :
              run.scriptSegments[i].keywords # << >>

\* The effect of a cancellation: the run ends without having failed or
\* finished, no further stage is called and no video is shown.
CancelEffect ==
    /\ active' = 0
    /\ ~isGenerating'
    /\ outcome' \notin {"done", "failed"}
    /\ calls' = calls
    /\ videoUrl' = ""

\* C14 as stated: a run that is waiting for a stage call can be cancelled.
C14_Cancellable ==
    active = 1 => ENABLED (Next /\ CancelEffect)

\* C15 as stated: the caption generator is given the duration the voiceover
\* reported, and no caption ends after it.
C15_CaptionsUseActualDuration ==
    pc \in {"loadFFmpeg", "composeVideo"} =>
        /\ run.subtitleArgs.duration = run.duration
        /\ \A i \in 1..Len(run.subtitles) : run.subtitles[i].endTime <= run.duration

RECURSIVE JoinUpTo(_, _)
\* The first k texts, each followed by one space and the next one.
JoinUpTo(texts, k) ==
    IF k = 0 THEN << >>
    ELSE IF k = 1 THEN texts[1]
    ELSE JoinUpTo(texts, k - 1) \o <<" ">> \o texts[k]

\* C16: the narration text is the segment texts in script order with
\* exactly one space between neighbours, and the voiceover and the caption
\* generator are given the same text.
C16_FullScriptJoined ==
    /\ pc \in {"generateVoiceover", "loadFFmpeg", "composeVideo"} =>
          run.voiceArgs.text =
              JoinUpTo([i \in 1..Len(run.scriptSegments) |-> run.scriptSegments[i].text],
                       Len(run.scriptSegments))
    /\ pc \in {"loadFFmpeg", "composeVideo"} =>
          run.subtitleArgs.text = run.voiceArgs.text

\* Witness of C16: the two-segment script about 'cat' has been narrated and
\* captioned.
C16_Witness ==
    /\ pc = "loadFFmpeg"
    /\ Len(run.scriptSegments) = 2
    /\ run.voiceArgs.text = <<"Meet ", "cat", ".", " ", "Follow for more.">>
    /\ run.subtitleArgs.text = run.voiceArgs.text

\* C18: while a run is in progress the form controls are disabled, the
\* prompt, duration and resolution of the component do not differ from the
\* run's, and every stage call has been given the run's own settings, also
\* when the voice list has set another voice in the meantime.
C18_SettingsFixedForRun ==
    active = 1 =>
        /\ ControlsDisabled(view)
        /\ settings.prompt = run.settings.prompt
        /\ settings.duration = run.settings.duration
        /\ settings.resolution = run.settings.resolution
        /\ run.scriptArgs = [prompt   |-> run.settings.prompt,
                             duration |-> run.settings.duration]
        /\ pc # "generateScript" => run.searchArgs.duration = run.settings.duration
        /\ pc \in {"generateVoiceover", "loadFFmpeg", "composeVideo"} =>
              /\ run.selectTarget = run.settings.duration
              /\ run.voiceArgs.voice = run.settings.voice
        /\ pc \in {"loadFFmpeg", "composeVideo"} =>
              run.subtitleArgs.duration \in {run.duration, run.settings.duration}
        /\ pc = "composeVideo" =>
              run.composeArgs.resolution = run.settings.resolution

\* Witness of C18: the voice list arrived during the run and set the voice
\* of the component; the run has narrated with its own voice and composes.
C18_Witness ==
    /\ pc = "composeVideo"
    /\ voices # << >>
    /\ view.voices = << >>
    /\ settings.voice = "Alice"
    /\ run.voiceArgs.voice = ""
    /\ run.composeArgs.resolution = "720x1280"

\* The run ended in Done: step 7, a video, no error.
DoneState == currentStep = 7 /\ videoUrl # "" /\ error = ""

\* The run ended in Failed: an error, no video, the progress message cleared.
FailedState == error # "" /\ videoUrl = "" /\ progress = ""

\* C19: every run ends (isGenerating becomes false again); when no run is
\* in progress after one was started, the component is in exactly one of
\* Done and Failed; and the generate button is then enabled again for a
\* non-empty prompt once the render is committed.
C19_RunTerminates ==
    /\ [](runs > 0 /\ ~isGenerating =>
             /\ active = 0
             /\ DoneState \/ FailedState
             /\ ~(DoneState /\ FailedState))
    /\ [](~isGenerating /\ view = Committed(settings, voices, isGenerating)
             /\ settings.prompt # << >> => ~GenerateDisabled(view))
    /\ (isGenerating ~> ~isGenerating)
    /\ (isGenerating ~> (~isGenerating /\ ~view.isGenerating))

\* Witness of C19: the second run has ended in Done and the button is
\* enabled again.
C19_Witness ==
    /\ runs = 2
    /\ ~isGenerating
    /\ DoneState
    /\ ~GenerateDisabled(view)

====
